---- MODULE Spec2Model ----
(***************************************************************************)
(* A model of iced-multi-window: the WindowManager registry                *)
(* (src/src/lib.rs), the WindowUnion generated by multi_window!            *)
(* (src/macros/src/lib.rs), and the host (iced) that issues window ids,    *)
(* executes the open/close commands and reports closures.                  *)
(***************************************************************************)
EXTENDS Integers, Sequences, FiniteSets, Bags, TLC

\* Largest window id the host issues in the model (ids are 0..MaxId).
MaxId == 2

\* Largest window id the host issues when the registry runs composed with it.
MaxHostId == 1

\* iced's Id::MAIN, the reserved id of the application's first window.
MAIN == 0

\* iced's window::Id values of the model.
Id == 0..MaxId

\* The window kinds declared in multi_window!(App, Settings, Log).
Kinds == {"Settings", "Log"}

\* The kind-specific field values a window struct can hold.
Contents == {"c1", "c2"}

\* The generated enum: one variant per kind, wrapping that kind's struct.
WindowUnion == [kind : Kinds, content : Contents]

\* The application states handed to view/title/theme.
Apps == {"app1", "app2"}

(***************************************************************************)
(* The Window trait as implemented by each kind, and the generated         *)
(* dispatcher of WindowUnion.                                              *)
(***************************************************************************)

\* <K as Window<App>>::view / title / theme / settings on a K value: the
\* result names the kind, the operation and everything it may depend on.
Window_view(kind, content, app) == <<kind, "view", content, app>>

Window_title(kind, content, app) == <<kind, "title", content, app>>

Window_theme(kind, content, app) == <<kind, "theme", content, app>>

Window_settings(kind, content) == <<kind, "settings", content>>

(***************************************************************************)
(* multi_window!(App, Window1, Window2, ...): the generated WindowUnion.    *)
(***************************************************************************)

\* Most identifiers handed to multi_window! in the model.
MaxArgs == 3

\* The identifiers multi_window! is tried on.
Idents == {"App", "Settings", "Log", "About"}

\* The application's own use: multi_window!(App, Settings, Log).
Declared == <<"App", "Settings", "Log">>

\* #windows(#windows): the variant named after the kind wraps the kind's struct.
variant(K) == [name |-> K, wraps |-> K]

\* Self::#windows(window) => window.method(app)
arm(K, method) == [pattern |-> K, method |-> method]

\* Faulty variant: the check that a window kind was given is left out.
multi_window_unchecked(args) ==
    IF args = <<>>
    THEN [outcome |-> "panic", message |-> "Expected at least two arguments, got 0"]
    ELSE LET windows == Tail(args) IN
         [outcome  |-> "ok",
          app      |-> Head(args),
          variants |-> [i \in DOMAIN windows |-> variant(windows[i])],
          view     |-> [i \in DOMAIN windows |-> arm(windows[i], "view")],
          title    |-> [i \in DOMAIN windows |-> arm(windows[i], "title")],
          theme    |-> [i \in DOMAIN windows |-> arm(windows[i], "theme")],
          settings |-> [i \in DOMAIN windows |-> arm(windows[i], "settings")]]

\* The expansion of multi_window!(args): a build-time panic, or the enum's
\* variants and the match arms of the four methods of its Window impl.
multi_window(args) ==
    IF args = <<>>
    THEN [outcome |-> "panic", message |-> "Expected at least two arguments, got 0"]
    ELSE LET windows == Tail(args) IN
         IF windows = <<>>
         THEN [outcome |-> "panic", message |-> "Expected at least two arguments, got 1"]
         ELSE [outcome  |-> "ok",
               app      |-> Head(args),
               variants |-> [i \in DOMAIN windows |-> variant(windows[i])],
               view     |-> [i \in DOMAIN windows |-> arm(windows[i], "view")],
               title    |-> [i \in DOMAIN windows |-> arm(windows[i], "title")],
               theme    |-> [i \in DOMAIN windows |-> arm(windows[i], "theme")],
               settings |-> [i \in DOMAIN windows |-> arm(windows[i], "settings")]]

\* The code generated for the application.
Generated == multi_window(Declared)

\* match self: the first arm whose pattern is w's variant, and the struct
\* that variant wraps: the type and the method the arm calls.
target(variants, arms, w) ==
    LET i == CHOOSE i \in DOMAIN arms :
                 /\ arms[i].pattern = w.kind
                 /\ \A j \in 1..(i - 1) : arms[j].pattern # w.kind
        v == CHOOSE v \in DOMAIN variants : variants[v].name = arms[i].pattern
    IN [type |-> variants[v].wraps, method |-> arms[i].method]

\* window.method(app) on a value of struct t.type.
call(t, content, app) ==
    CASE t.method = "view"  -> Window_view(t.type, content, app)
      [] t.method = "title" -> Window_title(t.type, content, app)
      [] t.method = "theme" -> Window_theme(t.type, content, app)

WindowUnion_view(w, app) ==
    call(target(Generated.variants, Generated.view, w), w.content, app)

\* Faulty variant: the title arms call view.
WindowUnion_title_view(w, app) ==
    call(target(Generated.variants, Generated.view, w), w.content, app)

WindowUnion_title(w, app) ==
    call(target(Generated.variants, Generated.title, w), w.content, app)

WindowUnion_theme(w, app) ==
    call(target(Generated.variants, Generated.theme, w), w.content, app)

WindowUnion_settings(w) ==
    Window_settings(target(Generated.variants, Generated.settings, w).type, w.content)

\* Faulty variant: equality that compares the variant alone.
WindowUnion_eq_kind(a, b) == a.kind = b.kind

\* #[derive(PartialEq, Eq)] on WindowUnion: same variant and equal wrapped
\* value.
WindowUnion_eq(a, b) == a.kind = b.kind /\ a.content = b.content

(***************************************************************************)
(* HashMap<Id, WindowUnion> and the host calls the registry makes.         *)
(***************************************************************************)

EmptyMap == [h \in {} |-> [kind |-> "Settings", content |-> "c1"]]

\* HashMap::insert
insert(ws, id, w) == [h \in (DOMAIN ws) \cup {id} |-> IF h = id THEN w ELSE ws[h]]

\* HashMap::remove
remove(ws, id) == [h \in (DOMAIN ws) \ {id} |-> ws[h]]

\* iced::window::spawn(settings): a fresh id and the command that opens it.
window_spawn(next, settings) ==
    [id |-> next, command |-> [open |-> next, settings |-> settings]]

\* iced::window::close(id)
window_close(id) == [close |-> id]

\* Some order in which HashMap::keys() yields the keys.
RECURSIVE keys(_)
keys(S) ==
    IF S = {} THEN <<>>
    ELSE LET x == CHOOSE y \in S : TRUE IN <<x>> \o keys(S \ {x})

\* Command::batch(commands): all of the commands, in no order (a bag).
RECURSIVE Command_batch(_)
Command_batch(commands) ==
    IF commands = <<>> THEN EmptyBag
    ELSE SetToBag({Head(commands)}) (+) Command_batch(Tail(commands))

(***************************************************************************)
(* WindowManager's methods: from the mapping and the arguments to the      *)
(* mapping afterwards, the outcome ("ok" or "panic") and the return value. *)
(***************************************************************************)

\* #[derive(Default)]
WindowManager_default == [windows |-> EmptyMap]

\* Faulty variant: new() forgets to insert the main window.
new_unseeded(main) == [windows |-> EmptyMap]

\* Faulty variant: new() registers the main window under a fresh id.
new_unique(main) == [windows |-> insert(EmptyMap, 1, main)]

new(main) == [windows |-> insert(EmptyMap, MAIN, main)]

\* Faulty variant: spawn registers the window under Id::MAIN instead of the new id.
spawn_main_key(ws, next, window) ==
    LET r == window_spawn(next, WindowUnion_settings(window)) IN
    [windows |-> insert(ws, MAIN, window),
     outcome |-> "ok",
     value   |-> <<r.id, r.command>>]

spawn(ws, next, window) ==
    LET r == window_spawn(next, WindowUnion_settings(window)) IN
    [windows |-> insert(ws, r.id, window),
     outcome |-> "ok",
     value   |-> <<r.id, r.command>>]

RECURSIVE push_closes(_)
push_closes(ks) ==
    IF ks = <<>> THEN <<>>
    ELSE <<window_close(Head(ks))>> \o push_closes(Tail(ks))

\* Faulty variant: close_all drains the mapping while it builds the batch.
close_all_drain(ws) ==
    [windows |-> EmptyMap,
     outcome |-> "ok",
     value   |-> Command_batch(push_closes(keys(DOMAIN ws)))]

close_all(ws) ==
    [windows |-> ws,
     outcome |-> "ok",
     value   |-> Command_batch(push_closes(keys(DOMAIN ws)))]

any_of(ws, window) == \E h \in DOMAIN ws : WindowUnion_eq(ws[h], window)

NoWindow == "No window found with that Id. Make sure you're only spawning via the window manager!"

\* Faulty variant: view hands back an absent result for an unknown id.
view_none(ws, app, id) ==
    IF id \in DOMAIN ws
    THEN [outcome |-> "ok", value |-> WindowUnion_view(ws[id], app)]
    ELSE [outcome |-> "none", value |-> "None"]

view(ws, app, id) ==
    IF id \in DOMAIN ws
    THEN [outcome |-> "ok", value |-> WindowUnion_view(ws[id], app)]
    ELSE [outcome |-> "panic", value |-> NoWindow]

title(ws, app, id) ==
    IF id \in DOMAIN ws
    THEN [outcome |-> "ok", value |-> WindowUnion_title(ws[id], app)]
    ELSE [outcome |-> "panic", value |-> NoWindow]

\* Faulty variant: theme falls back to a default theme for an unknown id.
theme_default(ws, app, id) ==
    IF id \in DOMAIN ws
    THEN [outcome |-> "ok", value |-> WindowUnion_theme(ws[id], app)]
    ELSE [outcome |-> "ok", value |-> "Theme::default"]

theme(ws, app, id) ==
    IF id \in DOMAIN ws
    THEN [outcome |-> "ok", value |-> WindowUnion_theme(ws[id], app)]
    ELSE [outcome |-> "panic", value |-> NoWindow]

\* Faulty variant: closed insists that the id is registered (remove(..).expect(..)).
closed_expect(ws, id) ==
    [windows |-> remove(ws, id),
     outcome |-> IF id \in DOMAIN ws THEN "ok" ELSE "panic"]

\* Faulty variant: closed leaves the entry in place.
closed_keeps(ws, id) == [windows |-> ws, outcome |-> "ok"]

\* Faulty variant: closed drops every entry equal to the closed window.
closed_retain(ws, id) ==
    [windows |-> IF id \in DOMAIN ws
                 THEN [h \in {g \in DOMAIN ws : ws[g] # ws[id]} |-> ws[h]]
                 ELSE ws,
     outcome |-> "ok"]

closed(ws, id) == [windows |-> remove(ws, id), outcome |-> "ok"]

\* is_empty(): true iff no window is registered.
is_empty(ws) == DOMAIN ws = {}

\* instances_of(k): the (handle, instance) pairs whose instance is of k's
\* kind, collected over the keys in iteration order.
RECURSIVE collect(_, _, _)
collect(ws, ks, window) ==
    IF ks = <<>> THEN <<>>
    ELSE (IF ws[Head(ks)].kind = window.kind
          THEN << <<Head(ks), ws[Head(ks)]>> >> ELSE <<>>)
         \o collect(ws, Tail(ks), window)

instances_of(ws, window) == collect(ws, keys(DOMAIN ws), window)

(***************************************************************************)
(* What each method does with the instances, in order: the Window methods  *)
(* it calls on them and the entries it inserts or removes.                 *)
(***************************************************************************)

\* Faulty variant: new() reads the main window's settings before inserting.
new_calls_settings(main) ==
    <<[call |-> "settings", window |-> main], [call |-> "insert", window |-> main]>>

new_calls(main) == <<[call |-> "insert", window |-> main]>>

spawn_calls(window) ==
    <<[call |-> "settings", window |-> window], [call |-> "insert", window |-> window]>>

\* close_all reads the keys alone.
close_all_calls(ws) == <<>>

\* any(|w| w == &window): the values are compared until one is equal.
RECURSIVE any_calls(_, _, _)
any_calls(ws, ks, window) ==
    IF ks = <<>> THEN <<>>
    ELSE <<[call |-> "eq", window |-> ws[Head(ks)]]>>
         \o (IF WindowUnion_eq(ws[Head(ks)], window) THEN <<>>
             ELSE any_calls(ws, Tail(ks), window))

any_of_calls(ws, window) == any_calls(ws, keys(DOMAIN ws), window)

\* get(&id).expect(..).view(app), and the same for title and theme.
query_calls(op, ws, id) ==
    IF id \in DOMAIN ws THEN <<[call |-> op, window |-> ws[id]]>> ELSE <<>>

closed_calls(ws, id) ==
    IF id \in DOMAIN ws THEN <<[call |-> "remove", window |-> ws[id]]>> ELSE <<>>

(***************************************************************************)
(* State.                                                                  *)
(***************************************************************************)
VARIABLES
    windows,   \* WindowManager.windows
    nextId,    \* the host's id counter (Id::unique)
    ret,       \* the last registry call: its arguments, outcome and value
    owner,     \* history: handle -> instance seeded or spawned, until closed(handle)
    returned,  \* history: the handles spawn has returned
    seeded,    \* history: the handles new() registered ({MAIN} or none)
    closedSince, \* history: the handles passed to closed while seeded or returned
    hostOpen,  \* host: the windows it believes open
    opens,     \* host: open commands not yet executed
    closes,    \* host: close commands not yet executed
    notifs,    \* host: closure notifications not yet delivered
    reported,  \* history: the handles whose closure was forwarded to closed
    asked      \* history: the handles the host was asked to close

regVars == <<windows, nextId, ret, owner, returned, seeded, closedSince>>

hostVars == <<hostOpen, opens, closes, notifs, reported, asked>>

vars == <<windows, nextId, ret, owner, returned, seeded, closedSince, hostOpen, opens, closes, notifs, reported, asked>>

\* A panic of view/title/theme unwinds the application: nothing runs after it.
Panicked == ret.outcome = "panic"

\* Which call, if any, on the same handle the call closed(h) follows directly.
Follows(r, h) ==
    IF r.op \in {"spawn", "closed"} /\ r.id = h THEN r.op ELSE "other"

InitHost ==
    /\ hostOpen = {MAIN}
    /\ opens = {}
    /\ closes = {}
    /\ notifs = {}
    /\ reported = {}
    /\ asked = {}

Init ==
    /\ \/ \E main \in WindowUnion :
            /\ windows = new(main).windows
            /\ owner = insert(EmptyMap, MAIN, main)
            /\ seeded = {MAIN}
            /\ ret = [op |-> "new", window |-> main, outcome |-> "ok",
                     calls |-> new_calls(main)]
       \/ /\ windows = WindowManager_default.windows
          /\ owner = EmptyMap
          /\ seeded = {}
          /\ ret = [op |-> "default", outcome |-> "ok", calls |-> <<>>]
    /\ nextId = 1
    /\ returned = {}
    /\ closedSince = {}
    /\ InitHost

(***************************************************************************)
(* The registry's calls.                                                   *)
(***************************************************************************)
DoSpawn(window) ==
    /\ ~Panicked
    /\ nextId <= MaxId
    /\ LET r == spawn(windows, nextId, window) IN
        /\ windows' = r.windows
        /\ ret' = [op |-> "spawn", window |-> window, id |-> r.value[1],
                   command |-> r.value[2], outcome |-> r.outcome, pre |-> windows,
                   calls |-> spawn_calls(window)]
    /\ owner' = insert(owner, nextId, window)
    /\ returned' = returned \cup {nextId}
    /\ nextId' = nextId + 1
    /\ UNCHANGED <<seeded, closedSince>>

DoCloseAll ==
    /\ ~Panicked
    /\ LET r == close_all(windows) IN
        /\ windows' = r.windows
        /\ ret' = [op |-> "close_all", outcome |-> r.outcome, value |-> r.value,
                   pre |-> windows, calls |-> close_all_calls(windows)]
    /\ UNCHANGED <<nextId, owner, returned, seeded, closedSince>>

DoClosed(id) ==
    /\ ~Panicked
    /\ LET r == closed(windows, id) IN
        /\ windows' = r.windows
        /\ ret' = [op |-> "closed", id |-> id, outcome |-> r.outcome, pre |-> windows,
                   follows |-> Follows(ret, id),
                   pair_pre |-> IF Follows(ret, id) = "other" THEN windows ELSE ret.pre,
                   was |-> IF id \in DOMAIN owner THEN <<owner[id]>> ELSE <<>>,
                   calls |-> closed_calls(windows, id)]
    /\ owner' = remove(owner, id)
    /\ closedSince' = IF id \in seeded \cup returned THEN closedSince \cup {id} ELSE closedSince
    /\ UNCHANGED <<nextId, returned, seeded>>

DoQuery(op, r, app, id) ==
    /\ ~Panicked
    /\ ret' = [op |-> op, app |-> app, id |-> id, outcome |-> r.outcome, value |-> r.value,
               calls |-> query_calls(op, windows, id)]
    /\ UNCHANGED <<windows, nextId, owner, returned, seeded, closedSince>>

Spawn == \E window \in WindowUnion : DoSpawn(window) /\ UNCHANGED hostVars

CloseAll == DoCloseAll /\ UNCHANGED hostVars

Closed == \E id \in Id : DoClosed(id) /\ UNCHANGED hostVars

View ==
    \E app \in Apps, id \in Id :
        DoQuery("view", view(windows, app, id), app, id) /\ UNCHANGED hostVars

Title ==
    \E app \in Apps, id \in Id :
        DoQuery("title", title(windows, app, id), app, id) /\ UNCHANGED hostVars

Theme ==
    \E app \in Apps, id \in Id :
        DoQuery("theme", theme(windows, app, id), app, id) /\ UNCHANGED hostVars

AnyOf ==
    /\ ~Panicked
    /\ \E window \in WindowUnion :
        ret' = [op |-> "any_of", window |-> window, outcome |-> "ok",
                value |-> any_of(windows, window),
                calls |-> any_of_calls(windows, window)]
    /\ UNCHANGED <<windows, nextId, owner, returned, seeded, closedSince>>
    /\ UNCHANGED hostVars

IsEmpty ==
    /\ ~Panicked
    /\ ret' = [op |-> "is_empty", outcome |-> "ok", value |-> is_empty(windows),
               calls |-> <<>>]
    /\ UNCHANGED <<windows, nextId, owner, returned, seeded, closedSince>>
    /\ UNCHANGED hostVars

InstancesOf ==
    /\ ~Panicked
    /\ \E window \in WindowUnion :
        ret' = [op |-> "instances_of", window |-> window, outcome |-> "ok",
                value |-> instances_of(windows, window), calls |-> <<>>]
    /\ UNCHANGED <<windows, nextId, owner, returned, seeded, closedSince>>
    /\ UNCHANGED hostVars

Next ==
    \/ Spawn
    \/ CloseAll
    \/ Closed
    \/ View
    \/ Title
    \/ Theme
    \/ AnyOf
    \/ IsEmpty
    \/ InstancesOf

Spec == Init /\ [][Next]_vars

(***************************************************************************)
(* The registry composed with the host: the application forwards every     *)
(* command to the host and every closure notification to closed.           *)
(***************************************************************************)

\* update(): spawn a window and return the open command to the runtime.
AppSpawn ==
    \E window \in WindowUnion :
        /\ nextId <= MaxHostId
        /\ DoSpawn(window)
        /\ opens' = opens \cup {ret'.command.open}
        /\ UNCHANGED <<hostOpen, closes, notifs, reported, asked>>

\* update(): return the batch of close_all to the runtime.
AppCloseAll ==
    /\ DoCloseAll
    /\ closes' = closes \cup {c.close : c \in BagToSet(ret'.value)}
    /\ asked' = asked \cup {c.close : c \in BagToSet(ret'.value)}
    /\ UNCHANGED <<hostOpen, opens, notifs, reported>>

\* The host executes an open command and the window opens.
HostOpens ==
    \E h \in opens :
        /\ opens' = opens \ {h}
        /\ hostOpen' = hostOpen \cup {h}
        /\ UNCHANGED <<closes, notifs, reported, asked>>
        /\ UNCHANGED regVars

\* The host cannot open the window: it reports a closure instead.
HostOpenFails ==
    \E h \in opens :
        /\ opens' = opens \ {h}
        /\ notifs' = notifs \cup {h}
        /\ UNCHANGED <<hostOpen, closes, reported, asked>>
        /\ UNCHANGED regVars

\* The user closes an open window.
HostUserCloses ==
    \E h \in hostOpen :
        /\ hostOpen' = hostOpen \ {h}
        /\ notifs' = notifs \cup {h}
        /\ UNCHANGED <<opens, closes, reported, asked>>
        /\ UNCHANGED regVars

\* The host executes a close command, after the open command of the same
\* handle: an open window closes and is reported, anything else is ignored.
HostExecClose ==
    \E h \in closes :
        /\ h \notin opens
        /\ closes' = closes \ {h}
        /\ hostOpen' = hostOpen \ {h}
        /\ notifs' = IF h \in hostOpen THEN notifs \cup {h} ELSE notifs
        /\ UNCHANGED <<opens, reported, asked>>
        /\ UNCHANGED regVars

\* Message::WindowClosed(id) => self.windows.closed(id)
Deliver ==
    \E h \in notifs :
        /\ DoClosed(h)
        /\ notifs' = notifs \ {h}
        /\ reported' = reported \cup {h}
        /\ UNCHANGED <<hostOpen, opens, closes, asked>>

\* The same, for a notification the host sends more than once: it stays
\* pending and is delivered again later.
DeliverDuplicate ==
    \E h \in notifs :
        /\ DoClosed(h)
        /\ reported' = reported \cup {h}
        /\ UNCHANGED <<hostOpen, opens, closes, notifs, asked>>

NextHost ==
    \/ AppSpawn
    \/ AppCloseAll
    \/ HostOpens
    \/ HostOpenFails
    \/ HostUserCloses
    \/ HostExecClose
    \/ Deliver
    \/ DeliverDuplicate

SpecHost == Init /\ [][NextHost]_vars

\* The runtime executes every command it was handed and the update loop
\* handles every message it was sent.
SpecHostFair ==
    /\ SpecHost
    /\ WF_vars(HostOpens \/ HostOpenFails)
    /\ WF_vars(HostExecClose)
    /\ WF_vars(Deliver)

(***************************************************************************)
(* multi_window! at build time, on every short list of identifiers.        *)
(***************************************************************************)
Args == UNION {[1..n -> Idents] : n \in 0..MaxArgs}

InitMacro ==
    /\ \E args \in Args : ret = [op |-> "tokens", args |-> args, outcome |-> "ok"]
    /\ windows = EmptyMap
    /\ owner = EmptyMap
    /\ seeded = {}
    /\ nextId = 1
    /\ returned = {}
    /\ closedSince = {}
    /\ InitHost

Expand ==
    /\ ret.op = "tokens"
    /\ ret' = [op |-> "multi_window", args |-> ret.args,
               outcome |-> multi_window(ret.args).outcome,
               expansion |-> multi_window(ret.args)]
    /\ UNCHANGED <<windows, nextId, owner, returned, seeded, closedSince>>
    /\ UNCHANGED hostVars

NextMacro == Expand

SpecMacro == InitMacro /\ [][NextMacro]_vars

(***************************************************************************)
(* Claims.                                                                 *)
(***************************************************************************)
Queries == {"view", "title", "theme"}

\* The instances registered in ws.
Registered(ws) == {ws[h] : h \in DOMAIN ws}

\* The elements of a sequence.
Range(q) == {q[i] : i \in 1..Len(q)}

\* C1: view, title and theme with a handle that is not registered (never
\* inserted, or removed by closed) panic, all three alike, and return no
\* value; a query that returned did so for a registered handle.
C1_UnregisteredQueryPanics ==
    /\ \A app \in Apps, id \in Id \ DOMAIN windows :
        /\ view(windows, app, id) = [outcome |-> "panic", value |-> NoWindow]
        /\ title(windows, app, id) = [outcome |-> "panic", value |-> NoWindow]
        /\ theme(windows, app, id) = [outcome |-> "panic", value |-> NoWindow]
    /\ ret.op \in Queries =>
        /\ ret.id \notin DOMAIN windows => ret.outcome = "panic" /\ ret.value = NoWindow
        /\ ret.outcome = "ok" => ret.id \in DOMAIN windows

\* C1 witness: theme was called for a handle spawn had returned and closed
\* had removed, and it panicked.
C1_Witness ==
    /\ ret.op = "theme"
    /\ ret.id \in returned \cap closedSince
    /\ ret.outcome = "panic"

\* C2: closed(h) removes exactly the entry of h when h is registered and
\* changes nothing and does not fail when it is not; a second closed(h)
\* right after the first leaves the mapping as the first left it.
C2_ClosedIdempotent ==
    /\ \A h \in Id :
        /\ closed(windows, h).outcome = "ok"
        /\ h \notin DOMAIN windows => closed(windows, h).windows = windows
        /\ closed(closed(windows, h).windows, h) = closed(windows, h)
    /\ ret.op = "closed" =>
        /\ ret.outcome = "ok"
        /\ DOMAIN windows = (DOMAIN ret.pre) \ {ret.id}
        /\ \A h \in DOMAIN windows : windows[h] = ret.pre[h]
        /\ ret.id \notin DOMAIN ret.pre => windows = ret.pre
        /\ ret.follows = "closed" => windows = ret.pre

\* C2 witness: closed was called twice in a row for a handle that was
\* registered before the first call.
C2_Witness ==
    /\ ret.op = "closed"
    /\ ret.follows = "closed"
    /\ ret.id \in closedSince
    /\ windows # EmptyMap

\* C3: spawn(w) succeeds and returns the host's handle with the open
\* command built from w's settings; from then on, whatever the host does
\* with the command, the handle is registered with w and view, title and
\* theme for it succeed with w's results.
C3_SpawnRegisters ==
    ret.op = "spawn" =>
        /\ ret.outcome = "ok"
        /\ ret.command = [open |-> ret.id, settings |-> WindowUnion_settings(ret.window)]
        /\ ret.id \in DOMAIN windows
        /\ windows[ret.id] = ret.window
        /\ \A app \in Apps :
            /\ view(windows, app, ret.id)
                 = [outcome |-> "ok", value |-> WindowUnion_view(ret.window, app)]
            /\ title(windows, app, ret.id)
                 = [outcome |-> "ok", value |-> WindowUnion_title(ret.window, app)]
            /\ theme(windows, app, ret.id)
                 = [outcome |-> "ok", value |-> WindowUnion_theme(ret.window, app)]

\* C3 witness: the last call was a spawn whose window the host failed to
\* open; the closure is reported but not yet delivered.
C3_Witness ==
    /\ ret.op = "spawn"
    /\ ret.id \in notifs
    /\ ret.id \notin hostOpen
    /\ ret.id \notin opens

\* The state after close_all: one close command per handle registered at the
\* call and none for another handle, and the mapping as it was.
C4_Batch ==
    ret.op = "close_all" =>
        /\ ret.outcome = "ok"
        /\ windows = ret.pre
        /\ BagCardinality(ret.value) = Cardinality(DOMAIN ret.pre)
        /\ \A h \in Id :
            CopiesIn(window_close(h), ret.value) = IF h \in DOMAIN ret.pre THEN 1 ELSE 0

\* A step that takes a handle out of the mapping is closed on that handle.
C4_OnlyClosedRemoves ==
    \A h \in DOMAIN windows :
        h \notin DOMAIN windows' => ret'.op = "closed" /\ ret'.id = h

\* C4: close_all returns one batch holding exactly one close command per
\* registered handle and leaves the mapping unchanged; a registered handle
\* leaves the mapping only by closed on it.
C4_CloseAllKeepsEntries == [](C4_Batch) /\ [][C4_OnlyClosedRemoves]_vars

\* C4 witness: close_all was called with two or more windows registered and
\* an earlier handle already removed.
C4_Witness ==
    /\ ret.op = "close_all"
    /\ Cardinality(DOMAIN windows) >= 2
    /\ closedSince # {}

C6_AnyOfByKind ==
    \A x \in WindowUnion :
        any_of(windows, x) <=> \E h \in DOMAIN windows : windows[h].kind = x.kind

\* C6 amended: any_of(x) is true iff some registered instance equals x, the
\* same variant wrapping an equal value; an instance of the same kind with
\* other field values does not match.
C6_AnyOfByEquality ==
    /\ \A x \in WindowUnion : any_of(windows, x) <=> x \in Registered(windows)
    /\ ret.op = "any_of" => (ret.value <=> ret.window \in Registered(windows))

\* C6 witness: any_of answered false for an instance whose kind is registered
\* with another content.
C6_Witness ==
    /\ ret.op = "any_of"
    /\ ret.value = FALSE
    /\ \E h \in DOMAIN windows : windows[h].kind = ret.window.kind

\* C7 as claimed: every handle in the mapping is a window the host believes
\* open, and no handle reported through closed is in the mapping.
C7_MappedIsOpen ==
    /\ \A h \in DOMAIN windows : h \in hostOpen
    /\ \A h \in reported : h \notin DOMAIN windows

\* C7 amended: every handle in the mapping is a window the host believes
\* open, or one whose open command the host has not executed yet, or one
\* whose closure the host has reported but the application has not yet
\* forwarded to closed; no handle reported through closed is in the mapping.
C7_MappedIsOpenOrInFlight ==
    /\ \A h \in DOMAIN windows : h \in hostOpen \cup opens \cup notifs
    /\ \A h \in reported : h \notin DOMAIN windows

\* C7 witness: the main window's closure has been forwarded to closed while
\* a spawned window is registered and open.
C7_Witness ==
    /\ MAIN \in reported
    /\ \E h \in DOMAIN windows : h \in hostOpen /\ h \in returned

\* C8: after spawn directly followed by closed on the handle spawn returned,
\* is_empty() is what it was before the pair and, the handle being new to
\* the mapping, so is the whole mapping.
C8_SpawnClosedRestores ==
    (ret.op = "closed" /\ ret.follows = "spawn") =>
        /\ is_empty(windows) = is_empty(ret.pair_pre)
        /\ ret.id \notin DOMAIN ret.pair_pre => windows = ret.pair_pre

\* C8 witness: the pair ran on an empty registry, which is empty again.
C8_Witness ==
    /\ ret.op = "closed"
    /\ ret.follows = "spawn"
    /\ is_empty(ret.pair_pre)
    /\ is_empty(windows)

\* C9: in a registry built by new(main), the registered handles are the main
\* handle and the handles spawn returned, less those passed to closed since;
\* is_empty() is true exactly when all of them have been closed.
C9_RegisteredSet ==
    seeded = {MAIN} =>
        /\ DOMAIN windows = ({MAIN} \cup returned) \ closedSince
        /\ is_empty(windows) <=> ({MAIN} \cup returned) \subseteq closedSince

\* C9 witness: the scenario's end: main and a spawned handle were registered,
\* both have been closed, and the registry is empty.
C9_Witness ==
    /\ seeded = {MAIN}
    /\ returned # {}
    /\ ({MAIN} \cup returned) \subseteq closedSince
    /\ is_empty(windows)

\* C10: instances_of(k) holds one (handle, instance) pair per registered
\* handle whose instance is of k's kind and nothing else; right after spawn
\* it holds the new handle, right after closed it does not hold the closed
\* one.
C10_InstancesOf ==
    /\ \A k \in WindowUnion :
        /\ Len(instances_of(windows, k))
             = Cardinality({h \in DOMAIN windows : windows[h].kind = k.kind})
        /\ Range(instances_of(windows, k))
             = {<<h, windows[h]>> : h \in {g \in DOMAIN windows : windows[g].kind = k.kind}}
    /\ ret.op = "spawn" =>
        <<ret.id, ret.window>> \in Range(instances_of(windows, ret.window))
    /\ ret.op = "closed" =>
        \A k \in WindowUnion : \A p \in Range(instances_of(windows, k)) : p[1] # ret.id

\* C10 witness: closed removed one of two registered windows of a kind; the
\* other is still listed.
C10_Witness ==
    /\ ret.op = "closed"
    /\ ret.was # <<>>
    /\ Len(instances_of(windows, ret.was[1])) >= 1

\* C11: the generated union has exactly one variant per declared kind, each
\* wrapping that kind's struct, and its view, title, theme and settings on
\* the variant of kind K are K's own view, title, theme and settings of the
\* wrapped value.
C11_UnionDelegates ==
    /\ Generated.outcome = "ok"
    /\ Len(Generated.variants) = Len(Declared) - 1
    /\ \A i \in DOMAIN Generated.variants :
        Generated.variants[i] = [name |-> Declared[i + 1], wraps |-> Declared[i + 1]]
    /\ {Generated.variants[i].name : i \in DOMAIN Generated.variants} = Kinds
    /\ Cardinality(Kinds) = Len(Generated.variants)
    /\ \A w \in WindowUnion :
        /\ WindowUnion_settings(w) = Window_settings(w.kind, w.content)
        /\ \A app \in Apps :
            /\ WindowUnion_view(w, app) = Window_view(w.kind, w.content, app)
            /\ WindowUnion_title(w, app) = Window_title(w.kind, w.content, app)
            /\ WindowUnion_theme(w, app) = Window_theme(w.kind, w.content, app)
    /\ (ret.op \in Queries /\ ret.outcome = "ok") =>
        ret.value = <<windows[ret.id].kind, ret.op, windows[ret.id].content, ret.app>>
    /\ ret.op = "spawn" =>
        ret.command.settings = <<ret.window.kind, "settings", ret.window.content>>

\* C11 witness: title was answered for a Log window while a Settings window
\* is registered too.
C11_Witness ==
    /\ ret.op = "title"
    /\ ret.outcome = "ok"
    /\ windows[ret.id].kind = "Log"
    /\ \E h \in DOMAIN windows : windows[h].kind = "Settings"

\* C12: right after new(main) the mapping is exactly MAIN -> main, so view,
\* title and theme for MAIN succeed with main's results and any_of(main) is
\* true before any spawn; a default-constructed registry has no entry.
C12_NewSeedsMain ==
    /\ ret.op = "new" =>
        /\ returned = {}
        /\ DOMAIN windows = {MAIN}
        /\ windows[MAIN] = ret.window
        /\ any_of(windows, ret.window)
        /\ \A app \in Apps :
            /\ view(windows, app, MAIN)
                 = [outcome |-> "ok", value |-> WindowUnion_view(ret.window, app)]
            /\ title(windows, app, MAIN)
                 = [outcome |-> "ok", value |-> WindowUnion_title(ret.window, app)]
            /\ theme(windows, app, MAIN)
                 = [outcome |-> "ok", value |-> WindowUnion_theme(ret.window, app)]
    /\ ret.op = "default" => DOMAIN windows = {} /\ returned = {}

\* C12 witness: the registry was just built by new with a Log window.
C12_Witness ==
    /\ ret.op = "new"
    /\ ret.window = [kind |-> "Log", content |-> "c2"]
    /\ MAIN \in DOMAIN windows

\* C13 as claimed: after closed on one window, every other window is still
\* registered and any_of is true for every instance of its kind.
C13_AnyOfKindSurvives ==
    ret.op = "closed" =>
        \A g \in (DOMAIN ret.pre) \ {ret.id} :
            /\ g \in DOMAIN windows
            /\ \A x \in WindowUnion : x.kind = windows[g].kind => any_of(windows, x)

\* C13 amended: spawn returns a handle distinct from every registered one;
\* after closed on one window every other window is still registered with
\* its instance, its queries succeed and any_of of its instance is true;
\* any_of(x) turns false only by closed on the last registered instance
\* equal to x.
C13_SameKindInstances ==
    /\ ret.op = "spawn" =>
        /\ ret.id \notin DOMAIN ret.pre
        /\ Cardinality(DOMAIN windows) = Cardinality(DOMAIN ret.pre) + 1
    /\ ret.op = "closed" =>
        /\ \A g \in (DOMAIN ret.pre) \ {ret.id} :
            /\ g \in DOMAIN windows
            /\ windows[g] = ret.pre[g]
            /\ any_of(windows, windows[g])
            /\ \A app \in Apps :
                /\ view(windows, app, g).outcome = "ok"
                /\ title(windows, app, g).outcome = "ok"
                /\ theme(windows, app, g).outcome = "ok"
        /\ \A x \in WindowUnion :
            (any_of(ret.pre, x) /\ ~any_of(windows, x)) =>
                /\ ret.id \in DOMAIN ret.pre
                /\ ret.pre[ret.id] = x
                /\ \A g \in DOMAIN windows : windows[g] # x

\* C13 witness: two spawned windows of one kind were registered and closed
\* was called for one of them.
C13_Witness ==
    /\ ret.op = "closed"
    /\ ret.id \in returned
    /\ ret.was # <<>>
    /\ \E g \in (DOMAIN windows) \cap returned : windows[g].kind = ret.was[1].kind

\* The places in a call's trace where settings() is called.
SettingsCalls(calls) == {i \in DOMAIN calls : calls[i].call = "settings"}

\* C14: spawn reads the settings of the window it is given exactly once,
\* before it inserts it; no other call reads any settings, so the registry
\* never reads the settings of the instance handed to new.
C14_SettingsOncePerSpawn ==
    /\ ret.op = "spawn" =>
        /\ Cardinality(SettingsCalls(ret.calls)) = 1
        /\ \A i \in SettingsCalls(ret.calls) :
            /\ ret.calls[i].window = ret.window
            /\ \A j \in DOMAIN ret.calls :
                ret.calls[j].call = "insert" => i < j /\ ret.calls[j].window = ret.window
        /\ ret.command.settings = WindowUnion_settings(ret.window)
    /\ ret.op # "spawn" => SettingsCalls(ret.calls) = {}
    /\ \A w \in WindowUnion :
        /\ SettingsCalls(new_calls(w)) = {}
        /\ SettingsCalls(any_of_calls(windows, w)) = {}
    /\ SettingsCalls(close_all_calls(windows)) = {}
    /\ \A id \in Id :
        /\ SettingsCalls(closed_calls(windows, id)) = {}
        /\ \A op \in Queries : SettingsCalls(query_calls(op, windows, id)) = {}

\* C14 witness: spawn was given a window equal to the one new had seeded,
\* which is still registered.
C14_Witness ==
    /\ ret.op = "spawn"
    /\ seeded = {MAIN}
    /\ MAIN \in DOMAIN windows
    /\ windows[MAIN] = ret.window

\* What a step may do to the mapping, by the call it is.
C15_Frame ==
    /\ ret'.op = "spawn" =>
        /\ ret'.id \notin DOMAIN windows
        /\ DOMAIN windows' = (DOMAIN windows) \cup {ret'.id}
        /\ \A h \in DOMAIN windows : windows'[h] = windows[h]
    /\ ret'.op = "closed" =>
        /\ DOMAIN windows' \subseteq DOMAIN windows
        /\ (DOMAIN windows) \ (DOMAIN windows') \subseteq {ret'.id}
        /\ \A h \in DOMAIN windows' : windows'[h] = windows[h]
    /\ ret'.op \in Queries \cup {"any_of", "close_all"} => windows' = windows

\* C15: spawn adds the entry of the handle it returns and nothing else,
\* closed(h) removes at most the entry of h, and both leave every other
\* handle with its instance; view, title, theme, any_of and close_all leave
\* the mapping as it was.
C15_OnlyOwnEntry == [][C15_Frame]_vars

\* C15 witness: closed removed one of three registered windows.
C15_Witness ==
    /\ ret.op = "closed"
    /\ ret.id \in DOMAIN ret.pre
    /\ Cardinality(DOMAIN windows) = 2

\* C16: with every command executed and every notification forwarded to
\* closed, once close_all has been called the registry becomes empty and
\* stays empty unless spawn is called afterwards; closed never fails,
\* repeated notifications included.
C16_CloseAllEmpties ==
    /\ [](ret.op = "closed" => ret.outcome = "ok")
    /\ (ret.op = "close_all") ~> (ret.op = "spawn" \/ [](DOMAIN windows = {}))

\* C16 witness: the host was asked to close two windows, every one of them
\* was reported through closed, one twice in a row, and the registry is
\* empty.
C16_Witness ==
    /\ Cardinality(asked) = 2
    /\ asked \subseteq reported
    /\ ret.op = "closed"
    /\ ret.follows = "closed"
    /\ DOMAIN windows = {}

\* C17: new, spawn, close_all, closed and any_of succeed in every state for
\* every argument; view, title and theme succeed for a registered handle
\* and panic for any other; no call ends in another way.
C17_OkOrPanic ==
    /\ \A w \in WindowUnion :
        /\ DOMAIN new(w).windows # {}
        /\ spawn(windows, nextId, w).outcome = "ok"
        /\ any_of(windows, w) \in BOOLEAN
    /\ close_all(windows).outcome = "ok"
    /\ \A id \in Id :
        /\ closed(windows, id).outcome = "ok"
        /\ \A app \in Apps :
            /\ view(windows, app, id).outcome = IF id \in DOMAIN windows THEN "ok" ELSE "panic"
            /\ title(windows, app, id).outcome = IF id \in DOMAIN windows THEN "ok" ELSE "panic"
            /\ theme(windows, app, id).outcome = IF id \in DOMAIN windows THEN "ok" ELSE "panic"
    /\ ret.outcome \in {"ok", "panic"}
    /\ ret.outcome = "panic" => ret.op \in Queries /\ ret.id \notin DOMAIN windows

\* C17 witness: title panicked for a handle that was never registered.
C17_Witness ==
    /\ ret.op = "title"
    /\ ret.outcome = "panic"
    /\ ret.id \notin seeded \cup returned

\* C18: multi_window! panics on no identifier and on the application
\* identifier alone; on two or more it takes the first as the application
\* type and makes one variant of each of the others, in order.
C18_MacroArguments ==
    ret.op = "multi_window" =>
        /\ ret.expansion = multi_window(ret.args)
        /\ Len(ret.args) = 0 =>
            /\ ret.outcome = "panic"
            /\ ret.expansion.message = "Expected at least two arguments, got 0"
        /\ Len(ret.args) = 1 =>
            /\ ret.outcome = "panic"
            /\ ret.expansion.message = "Expected at least two arguments, got 1"
        /\ Len(ret.args) >= 2 =>
            /\ ret.outcome = "ok"
            /\ ret.expansion.app = ret.args[1]
            /\ Len(ret.expansion.variants) = Len(ret.args) - 1
            /\ \A i \in DOMAIN ret.expansion.variants :
                ret.expansion.variants[i] = [name |-> ret.args[i + 1], wraps |-> ret.args[i + 1]]

\* C18 witness: multi_window! was given the application identifier alone
\* and panicked.
C18_Witness ==
    /\ ret.op = "multi_window"
    /\ Len(ret.args) = 1
    /\ ret.outcome = "panic"

====
